---- MODULE Spec2Model ----
(***************************************************************************)
(* Model of the SASA payment-notification backend (server module):         *)
(*   - the SSE broadcaster: sseClients, broadcast, GET /api/payments/stream *)
(*     with its keep-alive timer and req 'close' handler;                   *)
(*   - the payment ledger: store.payments and POST /api/payments;           *)
(*   - the Apple Pay merchant-session validation proxy,                     *)
(*     POST /api/apple-pay/validate-session.                                *)
(* JavaScript runs each handler to completion on one thread, so a handler   *)
(* is one action; an async handler is one action per stretch between two    *)
(* awaits.                                                                  *)
(***************************************************************************)
EXTENDS Integers, Sequences, FiniteSets, TLC

\* ---------------------------------------------------------------- bounds
MaxConns == 2        \* connections that ever subscribe
MaxPosts == 2        \* POST /api/payments requests handled
MaxPings == 1        \* keep-alive pings written, over all connections
MaxTicks == 1        \* milliseconds the clock advances (ledger specification)
MaxReqs == 2         \* validate-session requests handled
MaxReads == 2        \* GET /api/payments requests handled

\* ------------------------------------------------------ program constants
MinuteMs == 60000
StartTime == 6000000       \* Date.now() when the module is loaded
MinNameLen == 2
MinAmount == 1
MaxAmount == 5000
DefaultLimit == 25
MaxLimit == 200

Conns == 1..MaxConns

VARIABLES
  sseClients,   \* the Set of response objects, in insertion order
  transport,    \* per connection: "idle", "open", "dead" (closed, 'close' not yet dispatched), "closed"
  timers,       \* connections whose keepAlive interval is running
  written,      \* per connection: the res.write calls made on it, in order
  payments,     \* store.payments
  now,          \* Date.now()
  pubs,         \* history: one entry per broadcast call
  postResp,     \* the response sent by the latest POST /api/payments
  nposts,       \* POST /api/payments requests handled
  listed,       \* the latest GET /api/payments: its query, the store it read, its answer
  nreads,       \* GET /api/payments requests handled
  APPLE_ENABLED,
  env,          \* process.env merchant settings
  certReadable, \* whether fs.readFileSync(MERCHANT_CERT_PATH) succeeds
  vpc,          \* where the validate-session handler is
  vreq,         \* validationURL of the request in progress
  upstream,     \* what fetch resolved with
  vresp,        \* responses sent for the request in progress
  certReads,    \* credential reads done for the request in progress
  outbound,     \* outbound requests issued for the request in progress
  nreq          \* validate-session requests started

lvars == <<listed, nreads>>
bvars == <<sseClients, transport, timers, written, payments, now, pubs, postResp, nposts,
           listed, nreads>>
vvars == <<APPLE_ENABLED, env, certReadable, vpc, vreq, upstream, vresp, certReads, outbound, nreq>>
vars == <<sseClients, transport, timers, written, payments, now, pubs, postResp, nposts,
          listed, nreads,
          APPLE_ENABLED, env, certReadable, vpc, vreq, upstream, vresp, certReads, outbound, nreq>>

\* ------------------------------------------------------------ text model
\* A text is a sequence of tokens; a token is a string or a number.
Str(s) == [t |-> "str", s |-> s, n |-> 0]
Num(n) == [t |-> "num", s |-> "", n |-> n]

\* JSON.stringify of a payment entry: the own properties in creation order.
JSONStringifyEntry(e) ==
  << Str("name"), Str(e.name), Str("method"), Str(e.method),
     Str("amount"), Num(e.amount), Str("ts"), Num(e.ts) >>

\* `event: ${event}\ndata: ${JSON.stringify(data)}\n\n`
Payload(event, json) ==
  << Str("event: "), Str(event), Str("\ndata: ") >> \o json \o << Str("\n\n") >>

HelloPayload == Payload("hello", << Str("\"connected\"") >>)
PingPayload == << Str(": ping\n\n") >>

\* What an EventSource client reads back from a frame.
IsEventFrame(p) == Len(p) >= 4 /\ p[1] = Str("event: ") /\ p[3] = Str("\ndata: ")
                   /\ p[Len(p)] = Str("\n\n")
EventName(p) == p[2].s
EventData(p) == SubSeq(p, 4, Len(p) - 1)
ParseEntry(j) == [name |-> j[2].s, method |-> j[4].s, amount |-> j[6].n, ts |-> j[8].n]

\* ------------------------------------------------------------ Set of res
Range(s) == {s[i] : i \in 1..Len(s)}
SetAddReplace(s, x) == << x >>
SetAdd(s, x) == IF x \in Range(s) THEN s ELSE Append(s, x)
SetDeleteNothing(s, x) == s
SetDeletePop(s, x) == IF x \in Range(s) THEN SelectSeq(s, LAMBDA y : y # x)
                      ELSE SubSeq(s, 1, Len(s) - 1)
SetDeleteFirst(s, x) == IF s = << >> THEN s ELSE Tail(s)
SetDelete(s, x) == SelectSeq(s, LAMBDA y : y # x)

\* setInterval(...) and clearInterval(keepAlive) on the set of running timers
SetInterval(t, c) == t \cup {c}
ClearIntervalNothing(t, c) == t
ClearInterval(t, c) == t \ {c}

\* a write that goes to the front of the log
ResWriteInFront(w, tr, c, payload, k) ==
  [w EXCEPT ![c] = << [payload |-> payload, pub |-> k, ok |-> tr[c] = "open"] >> \o @]

\* res.write(payload): the call is logged; it reaches the client only while
\* the transport is open (a write on a destroyed socket returns false and
\* the chunk is dropped, nothing is thrown).
ResWrite(w, tr, c, payload, k) ==
  [w EXCEPT ![c] = Append(@, [payload |-> payload, pub |-> k, ok |-> tr[c] = "open"])]

\* a loop that stops at the first write that fails
RECURSIVE WriteAllAbort(_, _, _, _, _, _)
WriteAllAbort(w, tr, clients, i, payload, k) ==
  IF i > Len(clients) THEN w
  ELSE IF tr[clients[i]] # "open" THEN ResWrite(w, tr, clients[i], payload, k)
  ELSE WriteAllAbort(ResWrite(w, tr, clients[i], payload, k), tr, clients, i + 1, payload, k)

RECURSIVE WriteAll(_, _, _, _, _, _)
WriteAll(w, tr, clients, i, payload, k) ==
  IF i > Len(clients) THEN w
  ELSE WriteAll(ResWrite(w, tr, clients[i], payload, k), tr, clients, i + 1, payload, k)

\* a fan-out that misses the oldest member
broadcastSkipFirst(w, tr, clients, event, json, k) ==
  WriteAll(w, tr, clients, 2, Payload(event, json), k)

\* broadcast(event, data): one write per member of sseClients, in Set order.
broadcast(w, tr, clients, event, json, k) ==
  WriteAll(w, tr, clients, 1, Payload(event, json), k)

\* ---------------------------------------------------------------- ledger
InitialPayments ==
  << [name |-> "Priya N.", method |-> "QR", amount |-> 15, ts |-> StartTime - 25 * MinuteMs],
     [name |-> "Aman S.", method |-> "Apple Pay", amount |-> 15, ts |-> StartTime - 55 * MinuteMs],
     [name |-> "Neha R.", method |-> "Bank Transfer", amount |-> 20, ts |-> StartTime - 90 * MinuteMs] >>

Methods == {"QR", "Apple Pay", "Bank Transfer"}

\* request bodies tried against paymentSchema
PostBodies ==
  { [fullName |-> "Al", method |-> "QR", amount |-> 15],
    [fullName |-> "Al", method |-> "Cash", amount |-> 15] }
\* the same, with a second body that passes the schema and a second that fails
LedgerBodies == PostBodies \cup { [fullName |-> "Bo", method |-> "Apple Pay", amount |-> 20],
                                  [fullName |-> "A", method |-> "QR", amount |-> 0] }
StrLen(s) == IF s = "A" THEN 1 ELSE 2

\* a schema without the method rule
paymentSchemaErrorsNoMethod(b) ==
  (IF StrLen(b.fullName) < MinNameLen THEN {"fullName"} ELSE {})
  \cup (IF b.amount < MinAmount \/ b.amount > MaxAmount THEN {"amount"} ELSE {})

paymentSchemaErrors(b) ==
  (IF StrLen(b.fullName) < MinNameLen THEN {"fullName"} ELSE {})
  \cup (IF b.method \notin Methods THEN {"method"} ELSE {})
  \cup (IF b.amount < MinAmount \/ b.amount > MaxAmount THEN {"amount"} ELSE {})

NoBody == [fullName |-> "", method |-> "", amount |-> 0]
NoResponse == [status |-> 0, ok |-> FALSE, payment |-> << >>, errors |-> {}, request |-> NoBody]

\* store.payments.push(entry)
PushReplacesLast(p, e) == IF p = << >> THEN << e >> ELSE [p EXCEPT ![Len(p)] = e]
Push(p, e) == Append(p, e)

\* ------------------------------------------------------ GET /api/payments
\* values of req.query.limit; "undefined" is the absent parameter
LimitQueries == {"undefined", "", "0", "1", "2", "-1", "abc", "500"}

NaN == [nan |-> TRUE, n |-> 0]
Finite(n) == [nan |-> FALSE, n |-> n]
\* Number(x) for the query strings above
ToNumber(q) ==
  CASE q = "0" -> Finite(0)
    [] q = "1" -> Finite(1)
    [] q = "2" -> Finite(2)
    [] q = "-1" -> Finite(0 - 1)
    [] q = "500" -> Finite(500)
    [] q = "" -> Finite(0)
    [] OTHER -> NaN
\* Number(req.query.limit || 25)
LimitOf(q) == IF q \in {"undefined", ""} THEN Finite(DefaultLimit) ELSE ToNumber(q)
\* Math.min(x, 200)
MathMin(x, m) == IF x.nan THEN NaN ELSE Finite(IF x.n < m THEN x.n ELSE m)

\* Array.prototype.sort with (a, b) => b.ts - a.ts, on the positions of the
\* records: stable, so records with equal ts keep their relative order.
RECURSIVE InsertDesc(_, _, _)
InsertDesc(sorted, x, p) ==
  IF sorted = << >> THEN << x >>
  ELSE IF p[Head(sorted)].ts >= p[x].ts
       THEN << Head(sorted) >> \o InsertDesc(Tail(sorted), x, p)
       ELSE << x >> \o sorted
RECURSIVE SortDescUpTo(_, _)
SortDescUpTo(p, n) == IF n = 0 THEN << >> ELSE InsertDesc(SortDescUpTo(p, n - 1), n, p)
SortDesc(p) == SortDescUpTo(p, Len(p))

\* Array.prototype.slice(0, end)
Slice0(s, end) ==
  LET rel == IF end.nan THEN 0 ELSE end.n
      k == IF rel < 0 THEN (IF Len(s) + rel < 0 THEN 0 ELSE Len(s) + rel)
           ELSE IF rel > Len(s) THEN Len(s) ELSE rel
  IN SubSeq(s, 1, k)

Records(p, idx) == [i \in 1..Len(idx) |-> p[idx[i]]]

\* a read that sorts store.payments itself instead of a copy
ReadRecentInPlace(p, q) ==
  LET idx == Slice0(SortDesc(p), MathMin(LimitOf(q), MaxLimit))
  IN [store |-> Records(p, SortDesc(p)), idx |-> idx, result |-> Records(p, idx)]
\* [...store.payments].sort(...).slice(0, limit): the store after the call,
\* the positions in the store of the records returned, and those records
ReadRecent(p, q) ==
  LET idx == Slice0(SortDesc(p), MathMin(LimitOf(q), MaxLimit))
  IN [store |-> p, idx |-> idx, result |-> Records(p, idx)]

NoListing == [query |-> "undefined", store |-> << >>, idx |-> << >>, result |-> << >>]

\* ----------------------------------------------------------- SSE actions
InitB ==
  /\ sseClients = << >>
  /\ transport = [c \in Conns |-> "idle"]
  /\ timers = {}
  /\ written = [c \in Conns |-> << >>]
  /\ payments = InitialPayments
  /\ now = StartTime
  /\ pubs = << >>
  /\ postResp = NoResponse
  /\ nposts = 0
  /\ listed = NoListing
  /\ nreads = 0

\* GET /api/payments/stream for a new connection c; connections are numbered
\* in the order they arrive
Subscribe(c) ==
  /\ transport[c] = "idle"
  /\ \A b \in Conns : b < c => transport[b] # "idle"
  /\ transport' = [transport EXCEPT ![c] = "open"]
  /\ written' = ResWrite(written, transport', c, HelloPayload, 0)
  /\ sseClients' = SetAdd(sseClients, c)
  /\ timers' = SetInterval(timers, c)
  /\ UNCHANGED <<payments, now, pubs, postResp, nposts, lvars, vvars>>

RECURSIVE SumOver(_, _)
SumOver(f, S) == IF S = {} THEN 0
                 ELSE LET c == CHOOSE x \in S : TRUE IN f[c] + SumOver(f, S \ {c})
NumPings(w) ==
  SumOver([c \in Conns |-> Cardinality({i \in 1..Len(w[c]) : w[c][i].payload = PingPayload})],
          Conns)

\* the keepAlive interval fires for c
KeepAlive(c) ==
  /\ c \in timers
  /\ NumPings(written) < MaxPings
  /\ written' = ResWrite(written, transport, c, PingPayload, 0)
  /\ UNCHANGED <<sseClients, transport, timers, payments, now, pubs, postResp, nposts, lvars, vvars>>

\* the client goes away or the socket fails; the 'close' event is now pending
Disconnect(c) ==
  /\ transport[c] = "open"
  /\ transport' = [transport EXCEPT ![c] = "dead"]
  /\ UNCHANGED <<sseClients, timers, written, payments, now, pubs, postResp, nposts, lvars, vvars>>

\* req.on('close', ...) for c
OnClose(c) ==
  /\ transport[c] = "dead"
  /\ timers' = ClearInterval(timers, c)
  /\ sseClients' = SetDelete(sseClients, c)
  /\ transport' = [transport EXCEPT ![c] = "closed"]
  /\ UNCHANGED <<written, payments, now, pubs, postResp, nposts, lvars, vvars>>

\* POST /api/payments with body b
PostPayment(b) ==
  /\ nposts < MaxPosts
  /\ nposts' = nposts + 1
  /\ IF paymentSchemaErrors(b) # {}
     THEN /\ postResp' = [status |-> 400, ok |-> FALSE,
                        payment |-> << >>, errors |-> paymentSchemaErrors(b),
                        request |-> b]
          /\ UNCHANGED <<payments, written, pubs>>
     ELSE LET entry == [name |-> b.fullName, method |-> b.method, amount |-> b.amount, ts |-> now]
              k == Len(pubs) + 1
              resp == [status |-> 200, ok |-> TRUE, payment |-> << entry >>, errors |-> {},
                       request |-> b]
          IN /\ payments' = Push(payments, entry)
             /\ written' = broadcast(written, transport, sseClients, "payment",
                                     JSONStringifyEntry(entry), k)
             /\ pubs' = Append(pubs, [entry |-> entry, clients |-> Range(sseClients),
                                      transport |-> transport, resp |-> resp])
             /\ postResp' = resp
  /\ UNCHANGED <<sseClients, transport, timers, now, lvars, vvars>>

\* GET /api/payments?limit=q
GetPayments(q) ==
  /\ nreads < MaxReads
  /\ nreads' = nreads + 1
  /\ payments' = ReadRecent(payments, q).store
  /\ listed' = [query |-> q, store |-> payments, idx |-> ReadRecent(payments, q).idx,
                result |-> ReadRecent(payments, q).result]
  /\ UNCHANGED <<sseClients, transport, timers, written, now, pubs, postResp, nposts, vvars>>

\* time passes
Tick ==
  /\ now < StartTime + MaxTicks
  /\ now' = now + 1
  /\ UNCHANGED <<sseClients, transport, timers, written, payments, pubs, postResp, nposts, lvars, vvars>>

\* ------------------------------------------- merchant session validation
MerchantKeys == {"MERCHANT_ID", "MERCHANT_DOMAIN", "MERCHANT_DISPLAY_NAME", "MERCHANT_CERT_PATH"}
EnvValues == {"", "set"}                    \* "" stands for unset or empty
ValidationURLs == {"undefined", "", "https://apple-pay-gateway"}
Falsy(x) == x \in {"undefined", ""}

UpstreamStatuses == {200, 201, 403, 500}
ResponseOk(st) == st >= 200 /\ st <= 299    \* node-fetch Response.ok

\* Upstream body texts, over the alphabet: " " (whitespace), "t" (the literal
\* true), "[", "]", "," and "x" (a character that starts no JSON value).
UpstreamBodies ==
  { << >>, << "t" >>, << " ", "t" >>, << "[", "]" >>, << "[", "t", ",", " ", "t", "]" >>,
    << "[", "t" >>, << "x" >> }

StripWs(b) == SelectSeq(b, LAMBDA ch : ch # " ")

\* value ::= "t" | "[" "]" | "[" value ("," value)* "]", on whitespace-free text
RECURSIVE IsJSONValue(_)
RECURSIVE IsJSONElements(_)
IsJSONValue(s) ==
  \/ s = << "t" >>
  \/ /\ Len(s) >= 2 /\ s[1] = "[" /\ s[Len(s)] = "]"
     /\ \/ Len(s) = 2
        \/ IsJSONElements(SubSeq(s, 2, Len(s) - 1))
IsJSONElements(s) ==
  \/ IsJSONValue(s)
  \/ \E i \in 2..(Len(s) - 1) :
       /\ s[i] = ","
       /\ IsJSONValue(SubSeq(s, 1, i - 1))
       /\ IsJSONElements(SubSeq(s, i + 1, Len(s)))

\* appleRes.json(): JSON.parse of the body text; the parsed value is kept as the
\* sequence of its literals and brackets.
JSONParses(b) == IsJSONValue(StripWs(b))
JSONParse(b) == [i \in 1..Len(StripWs(b)) |->
                   IF StripWs(b)[i] = "t" THEN "TRUE" ELSE StripWs(b)[i]]
\* JSON.stringify of a parsed value
JSONStringify(v) == [i \in 1..Len(v) |-> IF v[i] = "TRUE" THEN "t" ELSE v[i]]

\* res.status(st).json({ ok: false, error })
ErrorResponse(st, msg) == [status |-> st, envelope |-> TRUE, error |-> msg, raw |-> << >>]
\* res.json({ ok: true, session })
SessionResponseEnvelope(session) == [status |-> 200, envelope |-> TRUE, error |-> << >>,
                                     raw |-> JSONStringify(session)]
\* res.json(session)
SessionResponse(session) == [status |-> 200, envelope |-> FALSE, error |-> << >>,
                             raw |-> JSONStringify(session)]

MsgDisabled == << "Apple Pay validation disabled on this server." >>
MsgMissingURL == << "Missing validationURL" >>
MsgConfig == << "Merchant config missing." >>
MsgFailed == << "Validation request failed." >>
MsgAppleError == << "Apple error" >>

\* if (!APPLE_ENABLED)
DisabledNever(flag) == FALSE
Disabled(flag) == ~flag

\* if (!validationURL)
MissingURLUndefinedOnly(url) == url = "undefined"
MissingURL(url) == Falsy(url)

\* if (!MERCHANT_ID || !MERCHANT_DOMAIN || !MERCHANT_DISPLAY_NAME || !MERCHANT_CERT_PATH)
ConfigMissingIdOnly(e) == Falsy(e["MERCHANT_ID"])
ConfigMissing(e) == \E k \in MerchantKeys : Falsy(e[k])

\* catch (err) { console.error(err); res.status(500).json({ ok: false, error: ... }) }
\* cause is what was thrown: "cert", "fetch" or "body"
CatchResponseLeaksCause(cause) == ErrorResponse(500, << cause >>)
CatchResponse(cause) == ErrorResponse(500, MsgFailed)

\* text || 'Apple error'
ErrorTextFixed(text) == MsgAppleError
ErrorText(text) == IF text = << >> THEN MsgAppleError ELSE text

NoUpstream == [status |-> 0, body |-> << >>, read |-> "none"]

InitV ==
  /\ APPLE_ENABLED \in BOOLEAN
  /\ env \in [MerchantKeys -> EnvValues]
  /\ certReadable \in BOOLEAN
  /\ vpc = "idle"
  /\ vreq = "undefined"
  /\ upstream = NoUpstream
  /\ vresp = << >>
  /\ certReads = 0
  /\ outbound = << >>
  /\ nreq = 0

\* POST /api/apple-pay/validate-session, from entry to the first await
ValidateSession(url) ==
  /\ vpc \in {"idle", "done"}
  /\ nreq < MaxReqs
  /\ nreq' = nreq + 1
  /\ vreq' = url
  /\ upstream' = NoUpstream
  /\ IF Disabled(APPLE_ENABLED)
     THEN /\ vresp' = << ErrorResponse(501, MsgDisabled) >>
          /\ certReads' = 0 /\ outbound' = << >> /\ vpc' = "done"
     ELSE IF MissingURL(url)
     THEN /\ vresp' = << ErrorResponse(400, MsgMissingURL) >>
          /\ certReads' = 0 /\ outbound' = << >> /\ vpc' = "done"
     ELSE IF ConfigMissing(env)
     THEN /\ vresp' = << ErrorResponse(500, MsgConfig) >>
          /\ certReads' = 0 /\ outbound' = << >> /\ vpc' = "done"
     ELSE IF ~certReadable
     THEN /\ vresp' = << CatchResponse("cert") >>
          /\ certReads' = 1 /\ outbound' = << >> /\ vpc' = "done"
     ELSE /\ vresp' = << >>
          /\ certReads' = 1
          /\ outbound' = << [url |-> url, merchantIdentifier |-> env["MERCHANT_ID"],
                             displayName |-> env["MERCHANT_DISPLAY_NAME"],
                             initiative |-> "web",
                             initiativeContext |-> env["MERCHANT_DOMAIN"]] >>
          /\ vpc' = "fetching"
  /\ UNCHANGED <<APPLE_ENABLED, env, certReadable, bvars>>

\* await fetch(...) resolves with a response
FetchResolve(st, body) ==
  /\ vpc = "fetching"
  /\ upstream' = [status |-> st, body |-> body, read |-> "pending"]
  /\ vpc' = IF ResponseOk(st) THEN "json" ELSE "text"
  /\ UNCHANGED <<APPLE_ENABLED, env, certReadable, vreq, vresp, certReads, outbound, nreq, bvars>>

\* await fetch(...) rejects (connection refused, TLS failure, ...)
FetchReject ==
  /\ vpc = "fetching"
  /\ vresp' = Append(vresp, CatchResponse("fetch"))
  /\ vpc' = "done"
  /\ UNCHANGED <<APPLE_ENABLED, env, certReadable, vreq, upstream, certReads, outbound, nreq, bvars>>

\* await appleRes.text() resolves on the !appleRes.ok branch
TextResolve ==
  /\ vpc = "text"
  /\ vresp' = Append(vresp, ErrorResponse(upstream.status, ErrorText(upstream.body)))
  /\ upstream' = [upstream EXCEPT !.read = "ok"]
  /\ vpc' = "done"
  /\ UNCHANGED <<APPLE_ENABLED, env, certReadable, vreq, certReads, outbound, nreq, bvars>>

\* await appleRes.json() resolves
JsonResolve ==
  /\ vpc = "json"
  /\ JSONParses(upstream.body)
  /\ vresp' = Append(vresp, SessionResponse(JSONParse(upstream.body)))
  /\ upstream' = [upstream EXCEPT !.read = "ok"]
  /\ vpc' = "done"
  /\ UNCHANGED <<APPLE_ENABLED, env, certReadable, vreq, certReads, outbound, nreq, bvars>>

\* the body stream fails, or the body is not JSON: the catch block answers
BodyReject ==
  /\ vpc \in {"text", "json"}
  /\ vresp' = Append(vresp, CatchResponse("body"))
  /\ upstream' = [upstream EXCEPT !.read = "failed"]
  /\ vpc' = "done"
  /\ UNCHANGED <<APPLE_ENABLED, env, certReadable, vreq, certReads, outbound, nreq, bvars>>

\* the validator at rest, for the broadcaster's specification
InitVIdle ==
  /\ APPLE_ENABLED = FALSE
  /\ env = [k \in MerchantKeys |-> ""]
  /\ certReadable = FALSE
  /\ vpc = "idle" /\ vreq = "undefined" /\ upstream = NoUpstream
  /\ vresp = << >> /\ certReads = 0 /\ outbound = << >> /\ nreq = 0


\* ---------------------------------------------------- broadcaster claims
\* positions in c's write log of the writes made by the k-th broadcast
PubEntries(c, k) == {i \in 1..Len(written[c]) : written[c][i].pub = k}
OpenAt(k) == {c \in Conns : pubs[k].transport[c] = "open"}
DeadAt(k) == {c \in Conns : pubs[k].transport[c] = "dead"}
\* the write carries a 'payment' event whose data reads back as entry e
CarriesPayment(wr, e) ==
  /\ IsEventFrame(wr.payload)
  /\ EventName(wr.payload) = "payment"
  /\ ParseEntry(EventData(wr.payload)) = e

\* C1: when N clients have subscribed, none of them closing, and a payment is
\* published, each of the N connections is written exactly one 'payment'
\* event, carrying exactly that record, and that write precedes on the
\* connection the write of every payment published later.
C1_FanOutToAllSubscribers ==
  \A k \in 1..Len(pubs) :
    DeadAt(k) = {} /\ (\A c \in Conns : pubs[k].transport[c] # "closed")
    => \A c \in OpenAt(k) :
         /\ Cardinality(PubEntries(c, k)) = 1
         /\ \A i \in PubEntries(c, k) :
              /\ CarriesPayment(written[c][i], pubs[k].entry)
              /\ written[c][i].ok
              /\ \A j \in 1..Len(written[c]) : written[c][j].pub > k => i < j

\* all MaxConns clients subscribed, then a payment and later another one
C1_Witness ==
  /\ Len(pubs) >= 2
  /\ OpenAt(1) = Conns
  /\ \A c \in Conns : PubEntries(c, 1) # {} /\ PubEntries(c, 2) # {}

\* C2: a write that fails on one connection does not abort the fan-out: every
\* other connection in sseClients at the call is still written the event,
\* and the publisher is answered { ok: true, payment }.
C2_FailureIsolated ==
  \A k \in 1..Len(pubs) :
    \A d \in DeadAt(k) :
      /\ \A c \in pubs[k].clients \ {d} : PubEntries(c, k) # {}
      /\ \A i \in PubEntries(d, k) : ~written[d][i].ok
      /\ pubs[k].resp.status = 200 /\ pubs[k].resp.ok
      /\ pubs[k].resp.payment = << pubs[k].entry >>

\* a broadcast whose first write failed and whose second was delivered
C2_Witness ==
  \E k \in 1..Len(pubs) : \E d \in DeadAt(k) : \E c \in OpenAt(k) :
    /\ \E i \in PubEntries(d, k) : ~written[d][i].ok
    /\ \E i \in PubEntries(c, k) : written[c][i].ok
    /\ \E i, j \in 1..Len(sseClients) : i < j /\ sseClients[i] = d /\ sseClients[j] = c
    /\ postResp = pubs[k].resp

\* C3: every event published after a connection was added to sseClients and
\* before its close handler ran is written to that connection, and the events
\* written to one connection are in the order of the publish calls.
C3_DeliveredWhileSubscribedInOrder ==
  \A c \in Conns :
    /\ \A k \in 1..Len(pubs) :
         pubs[k].transport[c] \in {"open", "dead"} => PubEntries(c, k) # {}
    /\ \A i, j \in 1..Len(written[c]) :
         (i < j /\ written[c][i].pub > 0 /\ written[c][j].pub > 0)
         => written[c][i].pub < written[c][j].pub

\* a connection that joined between two publishes, next to an older one
C3_Witness ==
  /\ Len(pubs) >= 2
  /\ \E c, e \in Conns :
       /\ pubs[1].transport[c] = "idle" /\ pubs[2].transport[c] = "open"
       /\ PubEntries(c, 2) # {}
       /\ PubEntries(e, 1) # {} /\ PubEntries(e, 2) # {}

\* C4: a publish is written to exactly the connections in the active set at
\* the call: never to one whose close handler ran before it, never to one
\* that subscribed after it.
C4_WrittenExactlyToActiveSet ==
  \A k \in 1..Len(pubs) :
    /\ {c \in Conns : PubEntries(c, k) # {}} = pubs[k].clients
    /\ \A c \in Conns :
         pubs[k].transport[c] \in {"closed", "idle"} => PubEntries(c, k) = {}

\* one publish before a connection subscribed, another after a connection's
\* close handler ran
C4_Witness ==
  \E k, m \in 1..Len(pubs) : \E c, e \in Conns :
    /\ pubs[k].transport[e] = "idle" /\ pubs[k].clients = {c}
    /\ pubs[m].transport[c] = "closed" /\ pubs[m].clients = {e}
    /\ PubEntries(c, k) # {} /\ PubEntries(e, m) # {}

NoDuplicates(s) == \A i, j \in 1..Len(s) : s[i] = s[j] => i = j

\* C5 as stated: each connection is in sseClients at most once and every
\* member of sseClients has an open transport.
C5_AsStated ==
  /\ NoDuplicates(sseClients)
  /\ \A c \in Range(sseClients) : transport[c] = "open"

\* C5, amended: each connection is in sseClients at most once, and the members
\* of sseClients are exactly the subscribed connections whose close handler
\* has not run: the transport is open, or it has closed with the 'close'
\* event still pending.
C5_MembersNotYetClosed ==
  /\ NoDuplicates(sseClients)
  /\ Range(sseClients) = {c \in Conns : transport[c] \in {"open", "dead"}}

\* one member has a dead transport, another connection has been removed
C5_Witness ==
  \E c, d \in Conns :
    /\ transport[c] = "dead" /\ c \in Range(sseClients)
    /\ transport[d] = "closed" /\ d \notin Range(sseClients)

\* ------------------------------------------------------ validator claims
Answered == nreq > 0 /\ vpc = "done"
NoCredentialNoNetwork == certReads = 0 /\ outbound = << >>
SomeSettingAbsent == \E k \in MerchantKeys : env[k] = ""

\* C6: with the feature flag off every validate-session request, whatever its
\* body and the merchant configuration, is answered 501 and neither reads the
\* credential file nor issues an outbound request.
C6_DisabledAnswers501 ==
  (~APPLE_ENABLED /\ nreq > 0)
  => /\ vpc = "done"
     /\ Len(vresp) = 1 /\ vresp[1].status = 501
     /\ NoCredentialNoNetwork

\* flag off, yet the request and the configuration are complete
C6_Witness ==
  /\ ~APPLE_ENABLED /\ Answered
  /\ ~Falsy(vreq) /\ ~ConfigMissing(env) /\ certReadable
  /\ vresp = << ErrorResponse(501, MsgDisabled) >>

\* C7 as stated: feature on and a merchant setting absent: every request,
\* with or without a validationURL, is answered 500 with no credential read
\* and no outbound request.
C7_AsStated ==
  (APPLE_ENABLED /\ SomeSettingAbsent /\ nreq > 0)
  => /\ vpc = "done"
     /\ Len(vresp) = 1 /\ vresp[1].status = 500
     /\ NoCredentialNoNetwork

\* C7, amended: feature on and a merchant setting absent: every request is
\* rejected with no credential read and no outbound request; the answer is
\* 500 'Merchant config missing.' when the body has a non-empty validationURL
\* and 400 when it has not.
C7_MisconfiguredRefused ==
  (APPLE_ENABLED /\ SomeSettingAbsent /\ nreq > 0)
  => /\ vpc = "done"
     /\ NoCredentialNoNetwork
     /\ vresp = << IF Falsy(vreq) THEN ErrorResponse(400, MsgMissingURL)
                   ELSE ErrorResponse(500, MsgConfig) >>

\* only the credential path is absent and the request carries a URL
C7_Witness ==
  /\ APPLE_ENABLED /\ Answered /\ ~Falsy(vreq)
  /\ Falsy(env["MERCHANT_CERT_PATH"])
  /\ \A k \in MerchantKeys \ {"MERCHANT_CERT_PATH"} : ~Falsy(env[k])
  /\ vresp = << ErrorResponse(500, MsgConfig) >>

\* C8: feature on, no or empty validationURL in the body: answered 400, with
\* no credential read and no outbound request made.
C8_MissingURLAnswers400 ==
  (APPLE_ENABLED /\ nreq > 0 /\ Falsy(vreq))
  => /\ vpc = "done"
     /\ Len(vresp) = 1 /\ vresp[1].status = 400
     /\ NoCredentialNoNetwork

\* an empty validationURL on a fully configured, enabled server
C8_Witness ==
  /\ APPLE_ENABLED /\ ~ConfigMissing(env) /\ certReadable
  /\ Answered /\ vreq = ""
  /\ vresp = << ErrorResponse(400, MsgMissingURL) >>

UpstreamSucceeded == upstream.status # 0 /\ ResponseOk(upstream.status)
UpstreamRefused == upstream.status # 0 /\ ~ResponseOk(upstream.status)

C10_AsStated ==
  (Answered /\ UpstreamRefused)
  => /\ Len(vresp) = 1
     /\ vresp[1].status = upstream.status
     /\ vresp[1].error = upstream.body

\* C10, amended: the outbound call returned a non-success status: if the body
\* text is read, the caller is answered with that status and
\* { ok: false, error: text }, where text is the upstream body, or
\* 'Apple error' when the upstream body is empty; if the body cannot be read,
\* the caller is sent the generic 500 failure.
C10_RefusalRelayedInEnvelope ==
  (Answered /\ UpstreamRefused)
  => /\ Len(vresp) = 1
     /\ upstream.read \in {"ok", "failed"}
     /\ upstream.read = "ok"
        => vresp[1] = ErrorResponse(upstream.status,
                        IF upstream.body = << >> THEN MsgAppleError ELSE upstream.body)
     /\ upstream.read = "failed" => vresp[1] = ErrorResponse(500, MsgFailed)

\* a 403 with a body, relayed
C10_Witness ==
  /\ Answered /\ UpstreamRefused /\ upstream.read = "ok"
  /\ upstream.status = 403 /\ upstream.body = << "x" >>
  /\ vresp = << ErrorResponse(403, << "x" >>) >>

\* the request passed the flag, URL and configuration tests
Validating == APPLE_ENABLED /\ nreq > 0 /\ vreq # "undefined" /\ vreq # ""
              /\ ~SomeSettingAbsent
CredentialUnreadable == Validating /\ ~certReadable
OutboundThrew == Validating /\ certReadable /\ vpc = "done" /\ upstream.status = 0

\* C11: in the Validating state, when the credential file is unreadable or the
\* outbound call throws or times out, the caller receives exactly one
\* response: status 500 with the fixed message 'Validation request failed.',
\* the same whatever the cause.
C11_FailureAnswersGeneric500 ==
  (CredentialUnreadable \/ OutboundThrew)
  => /\ vpc = "done"
     /\ vresp = << ErrorResponse(500, MsgFailed) >>
     /\ CredentialUnreadable => outbound = << >>

\* the outbound call was issued and threw
C11_Witness ==
  /\ OutboundThrew
  /\ certReads = 1 /\ Len(outbound) = 1
  /\ vresp = << ErrorResponse(500, MsgFailed) >>

\* C17: the cleanup run on transport closure (clearInterval, then
\* sseClients.delete) is idempotent: run again for a connection it already
\* ran for, or run for a connection that is not in the set, it leaves the
\* active set and the timers of the other connections unchanged.
C17_CleanupIdempotent ==
  \A c \in Conns :
    /\ transport[c] \in {"closed", "idle"}
       => /\ SetDelete(sseClients, c) = sseClients
          /\ ClearInterval(timers, c) = timers
    /\ SetDelete(SetDelete(sseClients, c), c) = SetDelete(sseClients, c)
    /\ ClearInterval(ClearInterval(timers, c), c) = ClearInterval(timers, c)
    /\ \A d \in Conns \ {c} :
         /\ d \in Range(SetDelete(sseClients, c)) <=> d \in Range(sseClients)
         /\ d \in ClearInterval(timers, c) <=> d \in timers

\* the cleanup has run for one connection while another is subscribed
C17_Witness ==
  \E c, d \in Conns :
    /\ transport[c] = "closed" /\ c \notin Range(sseClients) /\ c \notin timers
    /\ transport[d] = "open" /\ d \in Range(sseClients) /\ d \in timers

\* C19: on every subscriber connection the first thing written is the
\* 'hello' / "connected" acknowledgement, and it is written exactly once: it
\* precedes every 'payment' event and every keep-alive ping.
C19_HelloFirstAndOnce ==
  \A c \in Conns :
    /\ transport[c] # "idle" => written[c] # << >>
    /\ written[c] # << >>
       => /\ written[c][1].payload = HelloPayload
          /\ \A i \in 2..Len(written[c]) : written[c][i].payload # HelloPayload

\* a connection that was written the hello, then a ping and a payment
C19_Witness ==
  \E c \in Conns :
    /\ Len(written[c]) >= 3
    /\ \E i \in 2..Len(written[c]) : written[c][i].payload = PingPayload
    /\ \E i \in 2..Len(written[c]) : written[c][i].pub > 0

\* C20: the connections with a running keep-alive timer are exactly the
\* members of sseClients; once a connection's close handler has run nothing
\* more is written to it, and a ping is only written to a connection that
\* has its timer.
C20_TimersMatchActiveSet ==
  /\ [](timers = Range(sseClients))
  /\ [][\A c \in Conns :
         /\ transport[c] = "closed" => written'[c] = written[c]
         /\ (Len(written'[c]) > Len(written[c])
             /\ written'[c][Len(written'[c])].payload = PingPayload)
            => c \in timers /\ c \in Range(sseClients)]_vars

\* a connection was pinged, then closed, and has no timer left
C20_Witness ==
  \E c \in Conns :
    /\ transport[c] = "closed" /\ c \notin timers
    /\ \E i \in 1..Len(written[c]) : written[c][i].payload = PingPayload
    /\ \E d \in Conns : d \in timers

\* --------------------------------------------------------- ledger claims
TsOf(i) == listed.store[i].ts
NewRecords(p) == Len(p) - Len(InitialPayments)

\* C12: the list returned by GET /api/payments is ordered by timestamp
\* descending, and of two records with equal timestamps the later-inserted
\* one comes first.
C12_AsStated ==
  nreads > 0
  => \A i, j \in 1..Len(listed.idx) :
       i < j => \/ TsOf(listed.idx[i]) > TsOf(listed.idx[j])
                \/ /\ TsOf(listed.idx[i]) = TsOf(listed.idx[j])
                   /\ listed.idx[i] > listed.idx[j]

\* the number of records the claim allows for a limit parameter: min(limit,
\* 200), the default 25 when the parameter is absent or empty, none for a
\* limit below zero, and only the cap of 200 for a parameter that is no number
AllowedCount(q) ==
  CASE q \in {"undefined", ""} -> DefaultLimit
    [] q = "0" -> 0
    [] q = "1" -> 1
    [] q = "2" -> 2
    [] q = "-1" -> 0
    [] OTHER -> MaxLimit

\* C13: for every ledger content and every value of the limit parameter, zero,
\* negative and non-numeric values included, GET /api/payments returns no
\* more than min(limit, 200) records.
C13_AsStated ==
  nreads > 0 => Len(listed.result) <= AllowedCount(listed.query)

IsPrefix(a, b) == Len(a) <= Len(b) /\ SubSeq(b, 1, Len(a)) = a
AcceptedPost == nposts' = nposts + 1 /\ postResp'.status = 200

\* C14: the ledger is monotonic: no operation removes or alters a stored
\* record, each accepted POST /api/payments adds exactly one record, and a
\* read with a limit above the ledger's size made after an append includes
\* the new record.
C14_LedgerMonotonic ==
  /\ [][/\ IsPrefix(payments, payments')
        /\ AcceptedPost => /\ Len(payments') = Len(payments) + 1
                           /\ postResp'.payment = << payments'[Len(payments')] >>
        /\ ~AcceptedPost => payments' = payments]_vars
  /\ [](nreads > 0 /\ listed.query = "500"
        => \A i \in 1..Len(listed.store) : \E j \in 1..Len(listed.idx) : listed.idx[j] = i)

\* two payments were appended and then read back with limit=500
C14_Witness ==
  /\ NewRecords(payments) = 2
  /\ nreads > 0 /\ listed.query = "500" /\ listed.store = payments
  /\ Len(listed.result) = Len(payments)

\* C16: right after a payment is accepted and appended, GET
\* /api/payments?limit=1 returns exactly one record, the one just appended,
\* whatever the ledger already held.
C16_AsStated ==
  (nreads > 0 /\ listed.query = "1" /\ NewRecords(listed.store) > 0)
  => listed.idx = << Len(listed.store) >>

\* C18: GET /api/payments is a pure read: it leaves store.payments as it was,
\* records and order, so a read repeated with the same limit and no append in
\* between returns the same list.
C18_ReadLeavesStore ==
  [][nreads' # nreads
     => /\ payments' = payments
        /\ (nreads > 0 /\ listed.store = payments /\ listed'.query = listed.query)
           => listed'.result = listed.result]_vars

\* a second read of a ledger that holds appended records
C18_Witness ==
  /\ nreads = 2 /\ NewRecords(payments) > 0
  /\ listed.store = payments /\ listed.query = "2"
  /\ Len(listed.result) = 2

\* the shape paymentSchema asks for
ShapeOk(b) ==
  /\ b.fullName \notin {"", "A"}
  /\ b.method \in {"QR", "Apple Pay", "Bank Transfer"}
  /\ b.amount >= 1 /\ b.amount <= 5000

\* C15: a payment submission that fails shape validation is answered 400 and
\* changes nothing: no record is added to store.payments and no event is
\* written to any subscriber connection.
C15_RejectedPostChangesNothing ==
  [][(nposts' # nposts /\ ~ShapeOk(postResp'.request))
     => /\ postResp'.status = 400 /\ ~postResp'.ok
        /\ payments' = payments
        /\ written' = written
        /\ pubs' = pubs]_vars

\* a malformed submission was answered while a subscriber was connected
C15_Witness ==
  /\ nposts > 0 /\ ~ShapeOk(postResp.request) /\ postResp.status = 400
  /\ \E c \in Conns : c \in Range(sseClients) /\ transport[c] = "open"
  /\ payments = InitialPayments

\* ------------------------------------------------------- specifications
Init == InitB /\ InitVIdle

Next ==
  \/ \E c \in Conns : Subscribe(c)
  \/ \E c \in Conns : KeepAlive(c)
  \/ \E c \in Conns : Disconnect(c)
  \/ \E c \in Conns : OnClose(c)
  \/ \E b \in PostBodies : PostPayment(b)

Spec == Init /\ [][Next]_vars

InitValidator == InitB /\ InitV

NextValidator ==
  \/ \E url \in ValidationURLs : ValidateSession(url)
  \/ \E st \in UpstreamStatuses, body \in UpstreamBodies : FetchResolve(st, body)
  \/ FetchReject
  \/ TextResolve
  \/ JsonResolve
  \/ BodyReject

SpecValidator == InitValidator /\ [][NextValidator]_vars

NextLedger ==
  \/ \E b \in LedgerBodies : PostPayment(b)
  \/ \E q \in LimitQueries : GetPayments(q)
  \/ Tick

SpecLedger == Init /\ [][NextLedger]_vars
====
